---------------------------- MODULE Spec2Model ----------------------------
(***************************************************************************)
(* A model of fairseq's distributed gradient-synchronisation layer:        *)
(*   - DistributedFairseqModel (models/distributed_fairseq_model.py): the  *)
(*     selection of the DDP class, the construction of the wrapper and the *)
(*     registration of a DDP communication hook;                           *)
(*   - _DistributedFairseqModel.__getattr__: attribute forwarding;         *)
(*   - TPUDistributedDataParallel.all_reduce_grads;                        *)
(*   - MegatronTrainer.clip_grad_norm's model-parallel norm aggregation.   *)
(*                                                                         *)
(* Numbers: slowmo_momentum is kept as its decimal literal ("0.2"); a      *)
(* gradient is an integer and a scaled gradient an exact fraction; a       *)
(* gradient norm, the square root of a natural number k, is kept as k.     *)
(***************************************************************************)
EXTENDS Integers, Sequences, FiniteSets, TLC

VARIABLES
    \* ---- DistributedFairseqModel(args, model, process_group)
    args,             \* the args namespace (slowmo_momentum is assigned by the code)
    args_in,          \* the args as the caller passed them
    gossip_disabled,  \* module-level _GOSSIP_DISABLED
    pc,               \* position in DistributedFairseqModel
    ddp_class,        \* local ddp_class
    init_kwargs,      \* local init_kwargs
    ddp_model,        \* local ddp_model: the constructed wrapper
    comm_hook_type,   \* local comm_hook_type = os.getenv("COMM_HOOK_TYPE")
    state,            \* local state = powerSGD.PowerSGDState(...)
    outcome,          \* how the call ended: the wrapper returned, or the exception raised
    \* ---- _DistributedFairseqModel.__getattr__
    model_attrs,      \* the attribute names the wrapped model defines
    lookup,           \* the last attribute access on the wrapper and its answer
    \* ---- TPUDistributedDataParallel.all_reduce_grads
    requires_grad,    \* p.requires_grad of each parameter (the model is replicated)
    grad,             \* grad[w][p]: p.grad on worker w
    grad_in,          \* grad as it was when all_reduce_grads was called
    tpc,              \* tpc[w]: worker w's position in all_reduce_grads
    gradients,        \* gradients[w]: the local list gradients (the parameters whose
                      \* p.grad it holds, in order)
    xla_calls,        \* the xm.all_reduce collectives issued by the group
    \* ---- MegatronTrainer.clip_grad_norm
    mp_size,          \* the size of the model-parallel groups
    norm_in,          \* norm_in[w]: the total_norm passed to the aggregate function
    total_norm,       \* total_norm[w]: the local total_norm in the aggregate function
    npc               \* npc[w]: worker w's position in the aggregate function

selvars  == <<args, args_in, gossip_disabled, pc, ddp_class, init_kwargs,
              ddp_model, comm_hook_type, state, outcome>>
attrvars == <<model_attrs, lookup>>
tpuvars  == <<requires_grad, grad, grad_in, tpc, gradients, xla_calls>>
normvars == <<mp_size, norm_in, total_norm, npc>>
vars     == <<selvars, attrvars, tpuvars, normvars>>

None == "None"

\* The values of the locals before their assignment.
NoKwargs  == [module |-> None, slowmo_momentum |-> None]
NoWrapper == [class |-> None, module |-> None, slowmo_momentum |-> None,
              comm_hooks |-> <<>>]
NoState   == [process_group |-> None, matrix_approximation_rank |-> 0,
              start_powerSGD_iter |-> 0]

-----------------------------------------------------------------------------
(* Bounds of the model. *)

MaxWorldSize == 66
NumWorkers == 2
MaxMpSize == 2

(* The inputs DistributedFairseqModel is run on. *)
Wrappers    == {"DDP", "SlowMo", "Other"}
Backends    == {"c10d", "no_c10d", "gossip"}
Momenta     == {None, "0.0", "0.3"}
WorldSizes  == 1..MaxWorldSize
RecognizedHooks == {"FP16_COMPRESS", "POWER_SGD", "FP16_POWER_SGD",
                    "BATCHED_POWER_SGD", "FP16_BATCHED_POWER_SGD"}
HookEnv     == RecognizedHooks \cup {None, "BOGUS"}

ArgsSet == [tpu : BOOLEAN, distributed_wrapper : Wrappers, ddp_backend : Backends,
            slowmo_momentum : Momenta, distributed_world_size : WorldSizes]

-----------------------------------------------------------------------------
(* DistributedFairseqModel: the choice of ddp_class and init_kwargs. *)

\* The ladder with its boundaries on the upper branch.
DefaultSlowmoMomentum_StrictBounds(world_size) ==
    IF world_size < 16 THEN "0.0"
    ELSE IF world_size < 32 THEN "0.2"
    ELSE IF world_size < 64 THEN "0.5"
    ELSE "0.6"

\* The ladder of default momenta, indexed by the world size (lines 83-90).
DefaultSlowmoMomentum(world_size) ==
    IF world_size <= 16 THEN "0.0"
    ELSE IF world_size <= 32 THEN "0.2"
    ELSE IF world_size <= 64 THEN "0.5"
    ELSE "0.6"

\* args.slowmo_momentum after the SlowMo branch.
SlowmoMomentum(a) ==
    IF a.slowmo_momentum = None
    THEN DefaultSlowmoMomentum(a.distributed_world_size)
    ELSE a.slowmo_momentum

\* A branch that assigns ddp_class, and a branch that raises.
Chosen(class, momentum) == [raised |-> None, class |-> class, momentum |-> momentum]
Raised(exception, momentum) ==
    [raised |-> exception, class |-> None, momentum |-> momentum]

\* Variants of the chain with a plausible slip each: DDP with any backend
\* taken as the dense class; the gossip import flag not consulted; the final
\* else falling back to the dense class.
SelectDdpClass_DenseForAnyBackend(a, gossipDisabled) ==
    IF a.tpu THEN Chosen("TPUDistributedDataParallel", a.slowmo_momentum)
    ELSE IF a.distributed_wrapper = "DDP"
    THEN Chosen("DistributedDataParallel", a.slowmo_momentum)
    ELSE IF a.distributed_wrapper = "SlowMo"
    THEN IF gossipDisabled THEN Raised("ImportError", a.slowmo_momentum)
         ELSE Chosen("GossipDataParallel", SlowmoMomentum(a))
    ELSE Raised("ValueError", a.slowmo_momentum)

SelectDdpClass_NoImportCheck(a, gossipDisabled) ==
    IF a.tpu THEN Chosen("TPUDistributedDataParallel", a.slowmo_momentum)
    ELSE IF a.distributed_wrapper = "DDP" /\ a.ddp_backend = "c10d"
    THEN Chosen("DistributedDataParallel", a.slowmo_momentum)
    ELSE IF a.distributed_wrapper = "DDP" /\ a.ddp_backend = "no_c10d"
    THEN Chosen("LegacyDistributedDataParallel", a.slowmo_momentum)
    ELSE IF a.distributed_wrapper = "SlowMo"
    THEN Chosen("GossipDataParallel", SlowmoMomentum(a))
    ELSE Raised("ValueError", a.slowmo_momentum)

SelectDdpClass_DenseFallback(a, gossipDisabled) ==
    IF a.tpu THEN Chosen("TPUDistributedDataParallel", a.slowmo_momentum)
    ELSE IF a.distributed_wrapper = "DDP" /\ a.ddp_backend = "no_c10d"
    THEN Chosen("LegacyDistributedDataParallel", a.slowmo_momentum)
    ELSE IF a.distributed_wrapper = "SlowMo"
    THEN IF gossipDisabled THEN Raised("ImportError", a.slowmo_momentum)
         ELSE Chosen("GossipDataParallel", SlowmoMomentum(a))
    ELSE Chosen("DistributedDataParallel", a.slowmo_momentum)

\* The if/elif chain of lines 44-103: the class chosen and the momentum left
\* in args, or the exception raised.
SelectDdpClass(a, gossipDisabled) ==
    IF a.tpu
    THEN Chosen("TPUDistributedDataParallel", a.slowmo_momentum)
    ELSE IF a.distributed_wrapper = "DDP" /\ a.ddp_backend = "c10d"
    THEN Chosen("DistributedDataParallel", a.slowmo_momentum)
    ELSE IF a.distributed_wrapper = "DDP" /\ a.ddp_backend = "no_c10d"
    THEN Chosen("LegacyDistributedDataParallel", a.slowmo_momentum)
    ELSE IF a.distributed_wrapper = "SlowMo"
    THEN IF gossipDisabled
         THEN Raised("ImportError", a.slowmo_momentum)
         ELSE Chosen("GossipDataParallel", SlowmoMomentum(a))
    ELSE Raised("ValueError", a.slowmo_momentum)

\* init_kwargs of the chosen class (the entries the strategy depends on).
InitKwargs(class, a) ==
    IF class = "GossipDataParallel"
    THEN [module |-> "model", slowmo_momentum |-> a.slowmo_momentum]
    ELSE [module |-> "model", slowmo_momentum |-> None]

SelInit ==
    /\ args \in ArgsSet
    /\ args_in = args
    /\ gossip_disabled \in BOOLEAN
    /\ pc = "select"
    /\ ddp_class = None
    /\ init_kwargs = NoKwargs
    /\ ddp_model = NoWrapper
    /\ comm_hook_type = "unread"
    /\ state = NoState
    /\ outcome = "running"

\* Lines 44-103.
Select ==
    /\ pc = "select"
    /\ LET s == SelectDdpClass(args, gossip_disabled)
           a == [args EXCEPT !.slowmo_momentum = s.momentum]
       IN  /\ args' = a
           /\ IF s.raised = None
              THEN /\ ddp_class' = s.class
                   /\ init_kwargs' = InitKwargs(s.class, a)
                   /\ pc' = "construct"
                   /\ outcome' = outcome
              ELSE /\ outcome' = s.raised
                   /\ pc' = "done"
                   /\ UNCHANGED <<ddp_class, init_kwargs>>
    /\ UNCHANGED <<args_in, gossip_disabled, ddp_model, comm_hook_type, state>>
    /\ UNCHANGED <<attrvars, tpuvars, normvars>>

\* Line 118: ddp_model = _DistributedFairseqModel(**init_kwargs).
NewWrapper(class, kwargs) ==
    [class |-> class, module |-> kwargs.module,
     slowmo_momentum |-> kwargs.slowmo_momentum, comm_hooks |-> <<>>]

Construct ==
    /\ pc = "construct"
    /\ ddp_model' = NewWrapper(ddp_class, init_kwargs)
    /\ pc' = "getenv"
    /\ UNCHANGED <<args, args_in, gossip_disabled, ddp_class, init_kwargs,
                   comm_hook_type, state, outcome>>
    /\ UNCHANGED <<attrvars, tpuvars, normvars>>

\* Line 122: the environment variable is an input of the run.
GetEnv ==
    /\ pc = "getenv"
    /\ \E h \in HookEnv : comm_hook_type' = h
    /\ pc' = "state"
    /\ UNCHANGED <<args, args_in, gossip_disabled, ddp_class, init_kwargs,
                   ddp_model, state, outcome>>
    /\ UNCHANGED <<attrvars, tpuvars, normvars>>

\* Lines 129-133.
PowerSGDState ==
    [process_group |-> "process_group", matrix_approximation_rank |-> 1,
     start_powerSGD_iter |-> 2]

CreateState ==
    /\ pc = "state"
    /\ state' = PowerSGDState
    /\ pc' = "hook"
    /\ UNCHANGED <<args, args_in, gossip_disabled, ddp_class, init_kwargs,
                   ddp_model, comm_hook_type, outcome>>
    /\ UNCHANGED <<attrvars, tpuvars, normvars>>

\* Whether ddp_model.register_comm_hook resolves. The dense
\* DistributedDataParallel defines it; TPUDistributedDataParallel does not; the
\* legacy and gossip classes are not decided by this file, so either.
HasRegisterCommHook(class) ==
    IF class = "DistributedDataParallel" THEN {TRUE}
    ELSE IF class = "TPUDistributedDataParallel" THEN {FALSE}
    ELSE BOOLEAN

\* The hook each ddp_model.register_comm_hook call of lines 140-149 passes.
HookOf(h) ==
    IF h = "POWER_SGD" THEN "powerSGD_hook"
    ELSE IF h = "FP16_POWER_SGD" THEN "fp16_compress_wrapper(powerSGD_hook)"
    ELSE IF h = "BATCHED_POWER_SGD" THEN "batched_powerSGD_hook"
    ELSE "fp16_compress_wrapper(batched_powerSGD_hook)"

\* The chain without its final elif: an unrecognized value passes.
HookBranch_NoFinalElif(h, hasApi) ==
    IF h = "FP16_COMPRESS" THEN [result |-> "NameError", hook |-> None]
    ELSE IF h \in {"POWER_SGD", "FP16_POWER_SGD", "BATCHED_POWER_SGD",
                   "FP16_BATCHED_POWER_SGD"}
    THEN IF hasApi THEN [result |-> "registered", hook |-> HookOf(h)]
         ELSE [result |-> "AttributeError", hook |-> None]
    ELSE [result |-> "pass", hook |-> None]

\* Lines 136-151: the outcome of the if/elif chain on comm_hook_type:
\* "registered" with the hook, "pass", or the exception raised. Line 137
\* names ddp, which is bound nowhere.
HookBranch(h, hasApi) ==
    IF h = "FP16_COMPRESS" THEN [result |-> "NameError", hook |-> None]
    ELSE IF h \in {"POWER_SGD", "FP16_POWER_SGD", "BATCHED_POWER_SGD",
                   "FP16_BATCHED_POWER_SGD"}
    THEN IF hasApi THEN [result |-> "registered", hook |-> HookOf(h)]
         ELSE [result |-> "AttributeError", hook |-> None]
    ELSE IF h # None THEN [result |-> "ValueError", hook |-> None]
    ELSE [result |-> "pass", hook |-> None]

RegisterHook ==
    /\ pc = "hook"
    /\ \E hasApi \in HasRegisterCommHook(ddp_model.class) :
         LET b == HookBranch(comm_hook_type, hasApi)
         IN  IF b.result = "registered"
             THEN /\ ddp_model' = [ddp_model EXCEPT !.comm_hooks =
                                     Append(@, [hook |-> b.hook, state |-> state])]
                  /\ pc' = "return"
                  /\ outcome' = outcome
             ELSE IF b.result = "pass"
             THEN /\ pc' = "return"
                  /\ UNCHANGED <<ddp_model, outcome>>
             ELSE /\ outcome' = b.result
                  /\ pc' = "done"
                  /\ UNCHANGED ddp_model
    /\ UNCHANGED <<args, args_in, gossip_disabled, ddp_class, init_kwargs,
                   comm_hook_type, state>>
    /\ UNCHANGED <<attrvars, tpuvars, normvars>>

\* Line 153.
Return ==
    /\ pc = "return"
    /\ outcome' = "returned"
    /\ pc' = "done"
    /\ UNCHANGED <<args, args_in, gossip_disabled, ddp_class, init_kwargs,
                   ddp_model, comm_hook_type, state>>
    /\ UNCHANGED <<attrvars, tpuvars, normvars>>

\* The other components at rest.
SelIdle ==
    /\ args = None /\ args_in = None /\ gossip_disabled = FALSE /\ pc = "idle"
    /\ ddp_class = None /\ init_kwargs = NoKwargs /\ ddp_model = NoWrapper
    /\ comm_hook_type = "unread" /\ state = NoState /\ outcome = "idle"
AttrIdle == model_attrs = {} /\ lookup = None
TpuIdle ==
    /\ requires_grad = <<>> /\ grad = <<>> /\ grad_in = <<>> /\ tpc = <<>>
    /\ gradients = <<>> /\ xla_calls = <<>>
NormIdle == mp_size = 0 /\ norm_in = <<>> /\ total_norm = <<>> /\ npc = <<>>

Init == SelInit /\ AttrIdle /\ TpuIdle /\ NormIdle

Next ==
    \/ Select
    \/ Construct
    \/ GetEnv
    \/ CreateState
    \/ RegisterHook
    \/ Return

Spec == Init /\ [][Next]_vars

-----------------------------------------------------------------------------
(* _DistributedFairseqModel.__getattr__, on a wrapper whose class extends   *)
(* TPUDistributedDataParallel. Python calls __getattr__ only after the     *)
(* normal lookup (the instance dictionary and the classes) has failed.     *)

AttrNames == {"module", "process_group", "all_reduce_grads", "encoder", "max_positions"}

\* What TPUDistributedDataParallel.__init__ leaves on the wrapper: module is
\* an nn.Module, so the assignment registers it as a sub-module; the process
\* group and the world size are plain attributes; the methods are found on
\* the class.
WrapperRegistered == {"module"}
WrapperPlain == {"process_group", "world_size", "forward", "all_reduce_grads"}

AttributeError == [by |-> "AttributeError", name |-> None]
ValueOf(owner, name) == [by |-> owner, name |-> name]

\* getattr(wrapped_module, name), and hasattr(wrapped_module, name).
ModelGetattr(name, modelAttrs) ==
    IF name \in modelAttrs THEN ValueOf("model", name) ELSE AttributeError
ModelHasattr(name, modelAttrs) == ModelGetattr(name, modelAttrs) # AttributeError

\* super().__getattr__(name): the registered parameters, buffers and
\* sub-modules, or the failure.
ModuleGetattr(name) ==
    IF name \in WrapperRegistered THEN ValueOf("wrapper", name) ELSE AttributeError

\* Lines 112-116.
WrapperDunderGetattr(name, modelAttrs) ==
    IF ModelHasattr(name, modelAttrs)
    THEN ModelGetattr(name, modelAttrs)
    ELSE ModuleGetattr(name)

\* The attribute access  wrapper.<name>.
WrapperGetattr(name, modelAttrs) ==
    IF name \in WrapperPlain
    THEN ValueOf("wrapper", name)
    ELSE WrapperDunderGetattr(name, modelAttrs)

\* No attribute read yet.
NoLookup == [name |-> None, answer |-> AttributeError]

AttrInit ==
    /\ model_attrs \in SUBSET AttrNames
    /\ lookup = NoLookup

\* A caller reads an attribute of the wrapper.
GetAttr ==
    /\ \E name \in AttrNames :
         lookup' = [name |-> name, answer |-> WrapperGetattr(name, model_attrs)]
    /\ UNCHANGED model_attrs
    /\ UNCHANGED <<selvars, tpuvars, normvars>>

SpecGetattrInit == AttrInit /\ SelIdle /\ TpuIdle /\ NormIdle
SpecGetattrNext == GetAttr
SpecGetattr == SpecGetattrInit /\ [][SpecGetattrNext]_vars

-----------------------------------------------------------------------------
(* TPUDistributedDataParallel.all_reduce_grads, run by the NumWorkers       *)
(* workers of the process group on their replicas of the model.            *)

TpuWorkers == 1..NumWorkers

\* self.parameters(), in order.
Parameters == <<"p1", "p2">>
ParamNames == {Parameters[i] : i \in 1..Len(Parameters)}

\* self.world_size (line 162): the size of the group.
WorldSize == NumWorkers

\* Exact fractions, in lowest terms.
RECURSIVE GCD(_, _)
GCD(a, b) == IF b = 0 THEN a ELSE GCD(b, a % b)
Abs(n) == IF n < 0 THEN -n ELSE n
Frac(n, d) == LET g == GCD(Abs(n), d) IN [num |-> n \div g, den |-> d \div g]
FracAdd(x, y) == Frac(x.num * y.den + y.num * x.den, x.den * y.den)
FracMul(x, y) == Frac(x.num * y.num, x.den * y.den)

\* p.grad: None, or a tensor (one element stands for the tensor; every
\* element is treated alike).
NoGrad == [is_none |-> TRUE, value |-> Frac(0, 1), requires_grad |-> FALSE]
Tensor(value, requiresGrad) ==
    [is_none |-> FALSE, value |-> value, requires_grad |-> requiresGrad]
\* torch.zeros_like(p)
ZerosLike == Tensor(Frac(0, 1), FALSE)

GradValues == {1, 2}
GradsAtCall ==
    {NoGrad} \cup {Tensor(Frac(g, 1), FALSE) : g \in GradValues}
             \cup {Tensor(Frac(1, 1), TRUE)}

\* One pass of the loop body of lines 169-179 that skips a parameter without
\* a gradient instead of giving it one.
LoopBody_SkipAbsent(acc, p) ==
    IF acc.raised \/ ~requires_grad[p] \/ acc.grad[p].is_none THEN acc
    ELSE IF acc.grad[p].requires_grad THEN [acc EXCEPT !.raised = TRUE]
    ELSE [acc EXCEPT !.gradients = Append(@, p)]

\* One pass of the loop body of lines 169-179 on parameter p; acc holds the
\* worker's p.grad, the list gradients, and whether RuntimeError was raised.
LoopBody(acc, p) ==
    IF acc.raised \/ ~requires_grad[p] THEN acc
    ELSE LET g == IF acc.grad[p].is_none THEN ZerosLike ELSE acc.grad[p]
             filled == [acc EXCEPT !.grad[p] = g]
         IN  IF g.requires_grad
             THEN [filled EXCEPT !.raised = TRUE]
             ELSE [filled EXCEPT !.gradients = Append(@, p)]

\* The loop of lines 168-179 from parameter i on.
RECURSIVE Loop(_, _)
Loop(acc, i) ==
    IF i > Len(Parameters) THEN acc
    ELSE Loop(LoopBody(acc, Parameters[i]), i + 1)

TpuInit ==
    /\ requires_grad \in [ParamNames -> BOOLEAN]
    /\ grad \in [TpuWorkers -> [ParamNames -> GradsAtCall]]
    /\ grad_in = grad
    /\ tpc = [w \in TpuWorkers |-> "loop"]
    /\ gradients = [w \in TpuWorkers |-> <<>>]
    /\ xla_calls = <<>>

\* Lines 168-179 on worker w: the worker then waits in xm.all_reduce, or has
\* raised RuntimeError.
CollectGradients(w) ==
    /\ tpc[w] = "loop"
    /\ LET r == Loop([grad |-> grad[w], gradients |-> <<>>, raised |-> FALSE], 1)
       IN  /\ grad' = [grad EXCEPT ![w] = r.grad]
           /\ gradients' = [gradients EXCEPT ![w] = r.gradients]
           /\ tpc' = [tpc EXCEPT ![w] = IF r.raised THEN "RuntimeError"
                                                   ELSE "all_reduce"]
    /\ UNCHANGED <<requires_grad, grad_in, xla_calls>>
    /\ UNCHANGED <<selvars, attrvars, normvars>>

\* The sum over the workers of the i-th tensor of their lists.
RECURSIVE SumOverWorkers(_, _)
SumOverWorkers(i, w) ==
    IF w = 0 THEN Frac(0, 1)
    ELSE FracAdd(SumOverWorkers(i, w - 1), grad[w][gradients[w][i]].value)

\* xm.all_reduce('sum', gradients, scale=1. / self.world_size, ...), lines
\* 182-187: the collective completes once every worker of the group has
\* issued it, and leaves scale times the sum in every worker's tensors.
XmAllReduce ==
    /\ \A w \in TpuWorkers : tpc[w] = "all_reduce"
    /\ \A v, w \in TpuWorkers : Len(gradients[v]) = Len(gradients[w])
    /\ LET scale == Frac(1, WorldSize)
           reduced(i) == FracMul(SumOverWorkers(i, NumWorkers), scale)
       IN  /\ grad' = [w \in TpuWorkers |->
                         [p \in ParamNames |->
                            IF \E i \in 1..Len(gradients[w]) : gradients[w][i] = p
                            THEN LET i == CHOOSE j \in 1..Len(gradients[w]) :
                                               gradients[w][j] = p
                                 IN  [grad[w][p] EXCEPT !.value = reduced(i)]
                            ELSE grad[w][p]]]
           /\ xla_calls' = Append(xla_calls,
                                  [op |-> "sum", scale |-> scale,
                                   tensors |-> Len(gradients[1])])
    /\ tpc' = [w \in TpuWorkers |-> "done"]
    /\ UNCHANGED <<requires_grad, grad_in, gradients>>
    /\ UNCHANGED <<selvars, attrvars, normvars>>

SpecAllReduceGradsInit == TpuInit /\ SelIdle /\ AttrIdle /\ NormIdle
SpecAllReduceGradsNext ==
    \/ \E w \in TpuWorkers : CollectGradients(w)
    \/ XmAllReduce
SpecAllReduceGrads == SpecAllReduceGradsInit /\ [][SpecAllReduceGradsNext]_vars

-----------------------------------------------------------------------------
(* MegatronTrainer.clip_grad_norm: _aggregate_model_parallel_grad_norm, run *)
(* by every worker of a job with two data-parallel replicas of a model     *)
(* split over mp_size model-parallel ranks.                                *)

DpReplicas == {"dp0", "dp1"}
NormWorkers(mpSize) == DpReplicas \X (1..mpSize)

\* The process groups of worker w = <<replica, rank>>: the ranks of its
\* replica, and its rank in every replica.
ModelParallelGroup(w) == {v \in NormWorkers(mp_size) : v[1] = w[1]}
DataParallelGroup(w) == {v \in NormWorkers(mp_size) : v[2] = w[2]}

\* A non-negative real of the form n^(1/2^root), root 0 or 1, in canonical
\* form: the square root of a perfect square is kept as the whole number.
IsSquare(n) == \E r \in 0..n : r * r = n
WholeRoot(n) == CHOOSE r \in 0..n : r * r = n
Whole(n) == [n |-> n, root |-> 0]
SquareRoot(n) == IF IsSquare(n) THEN Whole(WholeRoot(n)) ELSE [n |-> n, root |-> 1]

\* x ** 2 and x ** 0.5 (x ** 0.5 of a whole number).
Pow2(x) == IF x.root = 1 THEN Whole(x.n) ELSE Whole(x.n * x.n)
Pow05(x) == SquareRoot(x.n)

\* The group line 35 passes to all_reduce, and the slip of passing the
\* data-parallel group.
ReduceGroup_DataParallel(w) == DataParallelGroup(w)
ReduceGroup(w) == ModelParallelGroup(w)

\* The sum of the whole numbers the workers of a group hold.
RECURSIVE SumOver(_, _)
SumOver(f, group) ==
    IF group = {} THEN 0
    ELSE LET v == CHOOSE u \in group : TRUE
         IN  f[v].n + SumOver(f, group \ {v})

\* The norms the workers are called with: 1, sqrt(2) and 2.
NormsAtCall == {SquareRoot(1), SquareRoot(2), SquareRoot(4)}

NormInit ==
    /\ mp_size \in 1..MaxMpSize
    /\ norm_in \in [NormWorkers(mp_size) -> NormsAtCall]
    /\ total_norm = norm_in
    /\ npc = [w \in NormWorkers(mp_size) |-> "square"]

\* Line 33, and the entry into all_reduce of line 34.
Square(w) ==
    /\ npc[w] = "square"
    /\ total_norm' = [total_norm EXCEPT ![w] = Pow2(@)]
    /\ npc' = [npc EXCEPT ![w] = "all_reduce"]
    /\ UNCHANGED <<mp_size, norm_in>>
    /\ UNCHANGED <<selvars, attrvars, tpuvars>>

\* Lines 34-36: the collective of the group of worker w completes once all
\* its members have entered it, and leaves the sum in every member's tensor.
AllReduce(w) ==
    LET group == ReduceGroup(w)
    IN  /\ \A v \in group : npc[v] = "all_reduce"
        /\ total_norm' = [v \in NormWorkers(mp_size) |->
                            IF v \in group THEN Whole(SumOver(total_norm, group))
                            ELSE total_norm[v]]
        /\ npc' = [v \in NormWorkers(mp_size) |->
                     IF v \in group THEN "sqrt" ELSE npc[v]]
        /\ UNCHANGED <<mp_size, norm_in>>
        /\ UNCHANGED <<selvars, attrvars, tpuvars>>

\* Lines 37-38.
Sqrt(w) ==
    /\ npc[w] = "sqrt"
    /\ total_norm' = [total_norm EXCEPT ![w] = Pow05(@)]
    /\ npc' = [npc EXCEPT ![w] = "done"]
    /\ UNCHANGED <<mp_size, norm_in>>
    /\ UNCHANGED <<selvars, attrvars, tpuvars>>

SpecClipGradNormInit == NormInit /\ SelIdle /\ AttrIdle /\ TpuIdle
SpecClipGradNormNext ==
    \/ \E w \in NormWorkers(mp_size) : Square(w)
    \/ \E w \in NormWorkers(mp_size) : AllReduce(w)
    \/ \E w \in NormWorkers(mp_size) : Sqrt(w)
SpecClipGradNorm == SpecClipGradNormInit /\ [][SpecClipGradNormNext]_vars

-----------------------------------------------------------------------------
(* Properties of DistributedFairseqModel, checked under Spec. *)

\* The strategy a configuration asks for; None outside the supported set.
Requested(a, gossipDisabled) ==
    CASE a.tpu -> "TPUDistributedDataParallel"
      [] ~a.tpu /\ a.distributed_wrapper = "DDP" /\ a.ddp_backend = "c10d"
            -> "DistributedDataParallel"
      [] ~a.tpu /\ a.distributed_wrapper = "DDP" /\ a.ddp_backend = "no_c10d"
            -> "LegacyDistributedDataParallel"
      [] ~a.tpu /\ a.distributed_wrapper = "SlowMo" /\ ~gossipDisabled
            -> "GossipDataParallel"
      [] OTHER -> None

\* C1: for every configuration of the supported set, the class chosen and
\* the wrapper built (and so the wrapper returned) are of exactly the
\* strategy the configuration asks for, and a wrapper never has another
\* class than the one chosen.
C1_StrategyAsRequested ==
    /\ Requested(args_in, gossip_disabled) # None =>
          /\ pc # "select" => ddp_class = Requested(args_in, gossip_disabled)
          /\ pc \notin {"select", "construct"} =>
                ddp_model.class = Requested(args_in, gossip_disabled)
    /\ ddp_model # NoWrapper => ddp_model.class = ddp_class

C1_Witness ==
    /\ outcome = "returned"
    /\ ~args_in.tpu /\ args_in.distributed_wrapper = "DDP"
    /\ args_in.ddp_backend = "no_c10d"
    /\ ddp_model.class = "LegacyDistributedDataParallel"

\* The momentum the claim states for a world size and a given momentum.
LadderMomentum(given, world_size) ==
    IF given # None THEN given
    ELSE CASE world_size \in 1..16 -> "0.0"
           [] world_size \in 17..32 -> "0.2"
           [] world_size \in 33..64 -> "0.5"
           [] world_size > 64 -> "0.6"

\* C2: when the gossip class is chosen, the slowmo_momentum in init_kwargs,
\* and the one the wrapper is built with, is the given momentum when one was
\* given and otherwise 0.0 up to world size 16, 0.2 for 17..32, 0.5 for
\* 33..64 and 0.6 above 64.
C2_MomentumLadder ==
    ddp_class = "GossipDataParallel" =>
        LET m == LadderMomentum(args_in.slowmo_momentum,
                                args_in.distributed_world_size)
        IN  /\ init_kwargs.slowmo_momentum = m
            /\ ddp_model # NoWrapper => ddp_model.slowmo_momentum = m

C2_Witness ==
    /\ ddp_model.class = "GossipDataParallel"
    /\ args_in.slowmo_momentum = None
    /\ args_in.distributed_world_size = 64
    /\ ddp_model.slowmo_momentum = "0.5"

\* C6: once COMM_HOOK_TYPE has been read as a value that is none of the five
\* recognized ones, the call ends in ValueError, no hook is ever registered
\* on the wrapper and the wrapper is not returned.
C6_UnknownHookRaises ==
    (comm_hook_type \notin RecognizedHooks \cup {None, "unread"}) =>
        /\ ddp_model.comm_hooks = <<>>
        /\ pc # "return" /\ outcome # "returned"
        /\ pc = "done" => outcome = "ValueError"

C6_Witness ==
    /\ comm_hook_type = "BOGUS"
    /\ pc = "done"
    /\ outcome = "ValueError"

\* The gossip strategy is the one asked for.
GossipRequested(a) == ~a.tpu /\ a.distributed_wrapper = "SlowMo"

\* C7: when the gossip strategy is asked for and the gossip library is
\* missing, the selection step itself ends the call with ImportError: no
\* class is chosen, no wrapper is built, COMM_HOOK_TYPE is not read and no
\* PowerSGD state is created, in any state of the run.
C7_MissingGossipFailsAtSelection ==
    (GossipRequested(args_in) /\ gossip_disabled) =>
        /\ ddp_class = None
        /\ ddp_model = NoWrapper
        /\ comm_hook_type = "unread"
        /\ state = NoState
        /\ pc # "select" => (pc = "done" /\ outcome = "ImportError")

C7_Witness ==
    /\ GossipRequested(args_in) /\ gossip_disabled
    /\ pc = "done"
    /\ outcome = "ImportError"

\* The (distributed_wrapper, ddp_backend) pairs the claim C8 lists.
SupportedPairs == {<<"DDP", "c10d">>, <<"DDP", "no_c10d">>, <<"SlowMo", "gossip">>}

\* C8 as stated: with tpu unset, every (distributed_wrapper, ddp_backend)
\* pair outside the supported set ends the call in an error of the
\* selection, with no class chosen and no wrapper built.
C8_AsStated ==
    (/\ ~args_in.tpu
     /\ <<args_in.distributed_wrapper, args_in.ddp_backend>> \notin SupportedPairs
     /\ pc # "select") =>
        /\ pc = "done"
        /\ outcome \in {"ValueError", "ImportError"}
        /\ ddp_class = None
        /\ ddp_model = NoWrapper

\* C8 as amended: with tpu unset, a distributed_wrapper other than SlowMo
\* with a pair outside {DDP with c10d, DDP with no_c10d} ends the call in
\* ValueError at the selection, with no class chosen and no wrapper built;
\* SlowMo is taken with every ddp_backend, which plays no part: the gossip
\* class when the library is there, ImportError when it is not.
C8_UnsupportedPairRaises ==
    /\ (/\ ~args_in.tpu
        /\ args_in.distributed_wrapper # "SlowMo"
        /\ <<args_in.distributed_wrapper, args_in.ddp_backend>>
              \notin {<<"DDP", "c10d">>, <<"DDP", "no_c10d">>}) =>
           /\ ddp_class = None
           /\ ddp_model = NoWrapper
           /\ outcome # "returned"
           /\ pc # "select" => (pc = "done" /\ outcome = "ValueError")
    /\ (GossipRequested(args_in) /\ pc # "select") =>
           /\ gossip_disabled => outcome = "ImportError"
           /\ ~gossip_disabled => ddp_class = "GossipDataParallel"

C8_Witness ==
    /\ ~args_in.tpu
    /\ args_in.distributed_wrapper = "DDP" /\ args_in.ddp_backend = "gossip"
    /\ pc = "done" /\ outcome = "ValueError"

\* C9 as stated, for the dense class that lines 119-120 assume: with a
\* recognized COMM_HOOK_TYPE the call returns the wrapper with exactly one
\* hook registered on it, the one the value names; with COMM_HOOK_TYPE
\* unset it returns the wrapper with none.
NamedHook(h) ==
    CASE h = "FP16_COMPRESS" -> "fp16_compress_hook"
      [] h = "POWER_SGD" -> "powerSGD_hook"
      [] h = "FP16_POWER_SGD" -> "fp16_compress_wrapper(powerSGD_hook)"
      [] h = "BATCHED_POWER_SGD" -> "batched_powerSGD_hook"
      [] h = "FP16_BATCHED_POWER_SGD" -> "fp16_compress_wrapper(batched_powerSGD_hook)"

C9_AsStated ==
    (ddp_class = "DistributedDataParallel" /\ pc = "done") =>
        /\ comm_hook_type \in RecognizedHooks =>
              /\ outcome = "returned"
              /\ Len(ddp_model.comm_hooks) = 1
              /\ ddp_model.comm_hooks[1].hook = NamedHook(comm_hook_type)
        /\ comm_hook_type = None =>
              /\ outcome = "returned"
              /\ ddp_model.comm_hooks = <<>>

\* C10 as stated: a call that ends in ValueError has built no wrapper and
\* created no PowerSGD state.
C10_AsStated ==
    outcome = "ValueError" => (ddp_model = NoWrapper /\ state = NoState)

-----------------------------------------------------------------------------
(* Properties of attribute forwarding, checked under SpecGetattr. *)

\* C4 as stated: a name the wrapper defines, as a plain attribute, a method
\* or a registered member such as module, is answered by the wrapper whatever
\* the model defines; a name only the model defines gets the model's value;
\* a name neither defines fails as the access on the model fails.
C4_AsStated ==
    lookup # NoLookup =>
        IF lookup.name \in WrapperPlain \cup WrapperRegistered
        THEN lookup.answer = ValueOf("wrapper", lookup.name)
        ELSE lookup.answer = ModelGetattr(lookup.name, model_attrs)

-----------------------------------------------------------------------------
(* Properties of all_reduce_grads, checked under SpecAllReduceGrads. *)

\* The parameters that require gradients, in the order of self.parameters().
RequiredParameters == SelectSeq(Parameters, LAMBDA p : requires_grad[p])

\* What a worker's gradient at the call contributes: itself, or zero when
\* absent (the numerator; gradients at the call are whole numbers).
Contribution(g) == IF g.is_none THEN 0 ELSE g.value.num

RECURSIVE SumOfContributions(_, _)
SumOfContributions(p, w) ==
    IF w = 0 THEN 0
    ELSE SumOfContributions(p, w - 1) + Contribution(grad_in[w][p])

\* C5: a worker that has reached the collective holds a gradient for every
\* parameter that requires one (its own where it had one, zero where it had
\* none) and passes the gradients of exactly those parameters, in order;
\* when the workers are done, one sum collective scaled by 1/world_size was
\* issued, every such gradient is the mean over the workers of what they
\* contributed (g when all contributed g), and the gradients of the other
\* parameters are as they were.
C5_AllReduceGradsMean ==
    \A w \in TpuWorkers :
        /\ tpc[w] \in {"all_reduce", "done"} =>
              /\ gradients[w] = RequiredParameters
              /\ \A p \in ParamNames :
                    requires_grad[p] => (~grad[w][p].is_none /\ grad[w][p].value.den > 0)
              /\ \A p \in ParamNames : ~requires_grad[p] => grad[w][p] = grad_in[w][p]
        /\ tpc[w] = "all_reduce" =>
              \A p \in ParamNames :
                  requires_grad[p] =>
                      /\ grad[w][p].value.num = Contribution(grad_in[w][p])
                      /\ grad[w][p].value.den = 1
        /\ tpc[w] = "done" =>
              /\ Len(xla_calls) = 1
              /\ xla_calls[1].op = "sum"
              /\ xla_calls[1].scale.num * NumWorkers = xla_calls[1].scale.den
              /\ xla_calls[1].tensors = Len(RequiredParameters)
              /\ \A p \in ParamNames :
                    requires_grad[p] =>
                      /\ grad[w][p].value.num * NumWorkers
                            = SumOfContributions(p, NumWorkers) * grad[w][p].value.den
                      /\ \A g \in GradValues :
                            (\A v \in TpuWorkers : grad_in[v][p] = Tensor(Frac(g, 1), FALSE))
                                => grad[w][p].value = Frac(g, 1)

C5_Witness ==
    /\ \A w \in TpuWorkers : tpc[w] = "done"
    /\ requires_grad["p1"] /\ requires_grad["p2"]
    /\ grad_in[1]["p1"].is_none /\ ~grad_in[2]["p1"].is_none
    /\ \A w \in TpuWorkers : grad_in[w]["p2"] = Tensor(Frac(2, 1), FALSE)
    /\ \A w \in TpuWorkers : grad[w]["p2"].value = Frac(2, 1)

-----------------------------------------------------------------------------
(* Properties of the norm aggregation, checked under SpecClipGradNorm. *)

\* The sum of the squares of the norms the workers of a group were called with.
RECURSIVE SumOfSquares(_)
SumOfSquares(group) ==
    IF group = {} THEN 0
    ELSE LET v == CHOOSE u \in group : TRUE
         IN  Pow2(norm_in[v]).n + SumOfSquares(group \ {v})

\* x * sqrt(N) for a whole number N >= 1: the number whose square is x^2 * N.
TimesSqrt(x, N) == SquareRoot(Pow2(x).n * N)

\* C3: a worker that is done holds the non-negative number whose square is
\* the sum, over the members of its model-parallel group (and no other
\* worker), of the squares of the norms they were called with; with a group
\* of size 1 that is the norm it was called with, and with a group of size
\* N whose members were all called with n it is n * sqrt(N).
C3_ModelParallelNorm ==
    \A w \in NormWorkers(mp_size) :
        npc[w] = "done" =>
            /\ Pow2(total_norm[w]).n = SumOfSquares(ModelParallelGroup(w))
            /\ total_norm[w] = SquareRoot(SumOfSquares(ModelParallelGroup(w)))
            /\ mp_size = 1 => total_norm[w] = norm_in[w]
            /\ (\A v \in ModelParallelGroup(w) : norm_in[v] = norm_in[w]) =>
                  total_norm[w] = TimesSqrt(norm_in[w], Cardinality(ModelParallelGroup(w)))

C3_Witness ==
    /\ mp_size = 2
    /\ \A w \in NormWorkers(mp_size) : npc[w] = "done"
    /\ \A w \in ModelParallelGroup(<<"dp0", 1>>) : norm_in[w] = SquareRoot(4)
    /\ total_norm[<<"dp0", 1>>] = SquareRoot(8)
    /\ norm_in[<<"dp1", 1>>] = SquareRoot(1) /\ norm_in[<<"dp1", 2>>] = SquareRoot(2)
    /\ total_norm[<<"dp1", 2>>] = SquareRoot(3)

=============================================================================
